---------------------------- MODULE Spec2Model ----------------------------
(***************************************************************************)
(* A model of InternationalCooperationModel.py: the two-region dynamics,   *)
(* the simulation over a time grid, the metrics, and main's pipeline       *)
(* (simulate -> metrics -> print report -> plot).                          *)
(*                                                                         *)
(* Numbers.  A Python/numpy float is modelled as an exact fraction n/d     *)
(* with d > 0, kept in lowest terms; d = 0 encodes the non-finite values   *)
(* numpy produces instead of raising: 1/0 is +inf, -1/0 is -inf and 0/0    *)
(* is NaN.  Rounding of finite results and signed zeros are not modelled.  *)
(***************************************************************************)
EXTENDS Integers, Sequences, FiniteSets, TLC

VARIABLES
    tech_transfer_rate,     \* self.tech_transfer_rate
    trade_growth_rate,      \* self.trade_growth_rate
    collaboration_factor,   \* self.collaboration_factor
    resource_constraint,    \* self.resource_constraint
    caller,                 \* who drives the object: main, or a direct call
    pc,                     \* the step that runs next, "done" or "aborted"
    years,                  \* the argument of simulate_cooperation
    t,                      \* the time grid returned by simulate_cooperation
    solution,               \* the trajectory: a sequence of <<region1, region2>>
    istate,                 \* the solver's own status: "ok" or "failed"
    args,                   \* the (a, b, c, d) the dynamics function was called with
    metrics,                \* the mapping calculate_metrics returned, or None
    printed,                \* the report written to standard output, if any
    plotted,                \* the figure has been rendered
    abortedAt,              \* the pipeline step whose exception ended the run
    dynIn,                  \* a direct call of cooperation_dynamics: its arguments
    dynOut                  \* ... and its result

vars == <<tech_transfer_rate, trade_growth_rate, collaboration_factor,
          resource_constraint, caller, pc, years, t, solution, istate, args, metrics,
          printed, plotted, abortedAt, dynIn, dynOut>>

---------------------------------------------------------------------------
(* Bounds of the model.                                                    *)

MaxYears == 2       \* simulate_cooperation is called with years in 0..MaxYears
MaxLen == 2         \* direct calls of calculate_metrics: at most MaxLen rows
MaxProbe == 2       \* direct calls: levels drawn from -1 .. MaxProbe (and 20)
MaxLevel == 150     \* the solver gives up once a level leaves -MaxLevel..MaxLevel
BigRate == 20       \* a rate large enough to drive a level out of that window

---------------------------------------------------------------------------
(* Floating-point values as fractions.                                     *)

Abs(x) == IF x < 0 THEN -x ELSE x

Sign(x) == IF x < 0 THEN -1 ELSE IF x = 0 THEN 0 ELSE 1

RECURSIVE GCD(_, _)
GCD(x, y) == IF y = 0 THEN x ELSE GCD(y, x % y)

\* n/d in lowest terms with a positive denominator; x/0 keeps only its sign.
Norm(n, d) ==
    IF d = 0 THEN [n |-> Sign(n), d |-> 0]
    ELSE LET g == GCD(Abs(n), Abs(d))
             s == Sign(d)
         IN [n |-> s * (n \div g), d |-> s * (d \div g)]

Num(x) == [n |-> x, d |-> 1]

Tenths(x) == Norm(x, 10)

NaN == [n |-> 0, d |-> 0]

PosInf == [n |-> 1, d |-> 0]

IsFinite(x) == x.d # 0

FMul(x, y) == Norm(x.n * y.n, x.d * y.d)

FAdd(x, y) ==
    IF x.d = 0 /\ y.d = 0
    THEN (IF x.n = y.n THEN x ELSE NaN)
    ELSE Norm(x.n * y.d + y.n * x.d, x.d * y.d)

FNeg(x) == [n |-> -x.n, d |-> x.d]

FSub(x, y) == FAdd(x, FNeg(y))

\* 1/y: 1/0 is +inf, 1/inf is 0, 1/NaN is NaN.
Recip(y) == IF y.n < 0 THEN [n |-> -y.d, d |-> -y.n] ELSE [n |-> y.d, d |-> y.n]

\* numpy's float division: x/0 is +-inf or NaN (a warning, no exception).
FDiv(x, y) == FMul(x, Recip(y))

FLeq(x, y) == x.d # 0 /\ y.d # 0 /\ x.n * y.d <= y.n * x.d

\* The nearest integer to a finite fraction (halves go up).
Round(x) == (x.n + x.d \div 2) \div x.d

---------------------------------------------------------------------------
(* cooperation_dynamics(self, state, t, a, b, c, d)                        *)

cooperation_dynamics_swapped_terms(state, a, b, c, d) ==
    LET region1 == state[1]
        region2 == state[2]
        d_region1 == FAdd(FMul(FMul(a, region1),
                               FSub(Num(1), FDiv(region1, Num(100)))),
                          FDiv(FMul(FMul(b, region1), region2),
                               FAdd(Num(1), region2)))
        d_region2 == FAdd(FMul(FMul(c, region2),
                               FSub(Num(1), FDiv(region2, Num(100)))),
                          FDiv(FMul(FMul(d, region1), region2),
                               FAdd(Num(1), region2)))
    IN <<d_region1, d_region2>>

cooperation_dynamics(state, a, b, c, d) ==
    LET region1 == state[1]
        region2 == state[2]
        d_region1 == FAdd(FMul(FMul(a, region1),
                               FSub(Num(1), FDiv(region1, Num(100)))),
                          FDiv(FMul(FMul(b, region1), region2),
                               FAdd(Num(1), region2)))
        d_region2 == FAdd(FMul(FMul(c, region2),
                               FSub(Num(1), FDiv(region2, Num(100)))),
                          FDiv(FMul(FMul(d, region1), region2),
                               FAdd(Num(1), region1)))
    IN <<d_region1, d_region2>>

---------------------------------------------------------------------------
(* __init__: the constructor's defaults, in tenths.                        *)

DefaultTechTransfer == 3

DefaultTradeGrowth == 2

DefaultCollaboration == 4

DefaultResource == 1

\* The values a caller may assign to the four attributes.
Rates ==
    {Tenths(x) : x \in {0, DefaultTradeGrowth, DefaultCollaboration, BigRate}}

---------------------------------------------------------------------------
(* simulate_cooperation(self, years)                                       *)

PointsPerYear == 12

\* np.linspace(0, stop, num): num points, both ends included.
linspace_open(stop, num) == [i \in 1..num |-> Norm((i - 1) * stop, num)]

linspace_at_least_one(stop, num) ==
    IF num <= 1 THEN <<Num(0)>>
    ELSE [i \in 1..num |-> Norm((i - 1) * stop, num - 1)]

linspace(stop, num) ==
    IF num = 1 THEN <<Num(0)>>
    ELSE [i \in 1..num |-> Norm((i - 1) * stop, num - 1)]

initial_state == <<Num(20), Num(20)>>

InWindow(x) == IsFinite(x) /\ -MaxLevel <= Round(x) /\ Round(x) <= MaxLevel

\* The solver's advance over one grid interval of width h, from y.  scipy's
\* LSODA is library code; it is modelled by one explicit step of the
\* dynamics function, with the new levels rounded to whole units.
SolverStep(y, h, p) ==
    LET Advance(f) == <<FAdd(y[1], FMul(h, f[1])), FAdd(y[2], FMul(h, f[2]))>>
        Accept(z) == IF InWindow(z[1]) /\ InWindow(z[2])
                     THEN [ok |-> TRUE, y |-> <<Num(Round(z[1])), Num(Round(z[2]))>>]
                     ELSE [ok |-> FALSE, y |-> y]
    IN Accept(Advance(cooperation_dynamics(y, p[1], p[2], p[3], p[4])))

\* The rows the solver fills: rows[k] is the state at grid[k].  It stops at
\* the first interval it cannot cross.
RECURSIVE Integrate(_, _, _)
Integrate(rows, grid, p) ==
    LET k == Len(rows)
    IN IF k = Len(grid) THEN [ok |-> TRUE, rows |-> rows]
       ELSE LET Continue(s) == IF s.ok THEN Integrate(Append(rows, s.y), grid, p)
                               ELSE [ok |-> FALSE, rows |-> rows]
            IN Continue(SolverStep(rows[k], FSub(grid[k + 1], grid[k]), p))

\* What the rows the solver never reached may hold when odeint returns.
Garbage == {<<Num(0), Num(0)>>, <<NaN, NaN>>}

\* odeint(func, y0, t, args): row 1 is y0.  After a solver failure odeint
\* only warns (ODEintWarning) and returns the array all the same, the rows
\* the solver never reached left unset; it raises nothing.
\* The array odeint hands back: the rows the solver filled, then junk.
Filled(rows, grid, junk) ==
    rows \o [i \in 1..(Len(grid) - Len(rows)) |-> junk]

odeint_raising(y0, grid, p, junk) ==
    LET Result(r) == [raised |-> ~r.ok,
                      istate |-> IF r.ok THEN "ok" ELSE "failed",
                      y |-> Filled(r.rows, grid, junk)]
    IN Result(Integrate(<<y0>>, grid, p))

odeint(y0, grid, p, junk) ==
    LET Result(r) == [raised |-> FALSE,
                      istate |-> IF r.ok THEN "ok" ELSE "failed",
                      y |-> Filled(r.rows, grid, junk)]
    IN Result(Integrate(<<y0>>, grid, p))

\* The tuple passed as args=, which the signature (state, t, a, b, c, d)
\* binds by position.
params_by_meaning(tech, trade, collab, resource) ==
    <<tech, collab, trade, resource>>

params(tech, trade, collab, resource) == <<tech, trade, collab, resource>>

BoundArgs(p) == [a |-> p[1], b |-> p[2], c |-> p[3], d |-> p[4]]

---------------------------------------------------------------------------
(* calculate_metrics(self, solution)                                       *)

np_sum(row) == FAdd(row[1], row[2])

\* Python's own float division, which raises ZeroDivisionError; numpy's
\* does not.
calculate_metrics_raising(sol) ==
    IF Len(sol) = 0 THEN [raised |-> "IndexError", value |-> <<>>]
    ELSE IF FMul(sol[1][1], sol[1][2]) = Num(0)
    THEN [raised |-> "ZeroDivisionError", value |-> <<>>]
    ELSE
    LET last == sol[Len(sol)]
        first == sol[1]
    IN [raised |-> "",
        value |-> <<[region1_final |-> last[1],
                     region2_final |-> last[2],
                     total_growth |-> FSub(np_sum(last), np_sum(first)),
                     synergy_index |-> FDiv(FMul(last[1], last[2]),
                                            FMul(first[1], first[2]))]>>]

calculate_metrics_sum_of_first(sol) ==
    IF Len(sol) = 0 THEN [raised |-> "IndexError", value |-> <<>>]
    ELSE
    LET last == sol[Len(sol)]
        first == sol[1]
    IN [raised |-> "",
        value |-> <<[region1_final |-> last[1],
                     region2_final |-> last[2],
                     total_growth |-> FSub(np_sum(last), first[1]),
                     synergy_index |-> FDiv(FMul(last[1], last[2]),
                                            FMul(first[1], first[2]))]>>]

calculate_metrics_sum_ratio(sol) ==
    IF Len(sol) = 0 THEN [raised |-> "IndexError", value |-> <<>>]
    ELSE
    LET last == sol[Len(sol)]
        first == sol[1]
    IN [raised |-> "",
        value |-> <<[region1_final |-> last[1],
                     region2_final |-> last[2],
                     total_growth |-> FSub(np_sum(last), np_sum(first)),
                     synergy_index |-> FDiv(FMul(last[1], last[2]),
                                            FAdd(first[1], first[2]))]>>]

\* solution[-1, 0] on an array with no rows raises IndexError.
calculate_metrics(sol) ==
    IF Len(sol) = 0 THEN [raised |-> "IndexError", value |-> <<>>]
    ELSE
    LET last == sol[Len(sol)]
        first == sol[1]
    IN [raised |-> "",
        value |-> <<[region1_final |-> last[1],
                     region2_final |-> last[2],
                     total_growth |-> FSub(np_sum(last), np_sum(first)),
                     synergy_index |-> FDiv(FMul(last[1], last[2]),
                                            FMul(first[1], first[2]))]>>]

---------------------------------------------------------------------------
(* generate_report(self, metrics)                                          *)

\* f"{value:.2f}": the value to two decimals; "nan" and "inf" print as such.
Fmt2(x) == IF IsFinite(x) THEN Norm(Round(FMul(x, Num(100))), 100) ELSE x

generate_report(tech, trade, collab, resource, m) ==
    [parameters |-> <<Fmt2(tech), Fmt2(trade), Fmt2(collab), Fmt2(resource)>>,
     results |-> <<Fmt2(m.region1_final), Fmt2(m.region2_final),
                   Fmt2(m.total_growth), Fmt2(m.synergy_index)>>]

---------------------------------------------------------------------------
(* main(): the order of its four steps.                                    *)

MainOrder_plot_first == <<"simulate", "metrics", "plot", "report">>

MainOrder == <<"simulate", "metrics", "report", "plot">>

\* The step that follows `step` when it returns normally.
After(step) ==
    LET i == CHOOSE j \in 1..Len(MainOrder) : MainOrder[j] = step
    IN IF i = Len(MainOrder) THEN "done" ELSE MainOrder[i + 1]

---------------------------------------------------------------------------
(* The state after construction, and the operations.                       *)

\* Levels and rates a direct caller passes in.
ProbeLevels == {Num(x) : x \in (-1..MaxProbe) \cup {20}} \cup {NaN}

ProbeRates == {Tenths(x) : x \in 0..MaxProbe}

ProbeRows == ProbeLevels \X ProbeLevels

ProbeSolutions == UNION {[1..n -> ProbeRows] : n \in 0..MaxLen}

Fresh ==
    /\ tech_transfer_rate = Tenths(DefaultTechTransfer)
    /\ trade_growth_rate = Tenths(DefaultTradeGrowth)
    /\ collaboration_factor = Tenths(DefaultCollaboration)
    /\ resource_constraint = Tenths(DefaultResource)
    /\ years = 0
    /\ t = <<>>
    /\ istate = ""
    /\ args = <<>>
    /\ metrics = <<>>
    /\ printed = <<>>
    /\ plotted = FALSE
    /\ abortedAt = ""
    /\ dynOut = <<>>

\* main() on a freshly constructed model.
InitMain ==
    /\ Fresh
    /\ caller = "main"
    /\ pc = MainOrder[1]
    /\ solution = <<>>
    /\ dynIn = <<>>

\* A direct call of calculate_metrics on an array of the caller's.
InitMetrics ==
    /\ Fresh
    /\ caller = "calculate_metrics"
    /\ pc = "metrics"
    /\ solution \in ProbeSolutions
    /\ dynIn = <<>>

\* A direct call of cooperation_dynamics.
InitDynamics ==
    /\ Fresh
    /\ caller = "cooperation_dynamics"
    /\ pc = "call"
    /\ solution = <<>>
    /\ dynIn \in {<<s, a, b, c, d>> : s \in ProbeRows,
                     a \in ProbeRates, b \in ProbeRates,
                     c \in ProbeRates, d \in ProbeRates}

Init == InitMain \/ InitMetrics \/ InitDynamics

AtDefaults ==
    /\ tech_transfer_rate = Tenths(DefaultTechTransfer)
    /\ trade_growth_rate = Tenths(DefaultTradeGrowth)
    /\ collaboration_factor = Tenths(DefaultCollaboration)
    /\ resource_constraint = Tenths(DefaultResource)

\* A caller assigns the four public attributes before simulating (once: a
\* second assignment reaches no state the first does not).
SetParameters(tech, trade, collab, resource) ==
    /\ caller = "main"
    /\ pc = "simulate"
    /\ AtDefaults
    /\ tech_transfer_rate' = tech
    /\ trade_growth_rate' = trade
    /\ collaboration_factor' = collab
    /\ resource_constraint' = resource
    /\ UNCHANGED <<caller, pc, years, t, solution, istate, args, metrics,
                   printed, plotted, abortedAt, dynIn, dynOut>>

\* An uncaught exception in `step` ends the run.
Abort(step) ==
    /\ pc' = "aborted"
    /\ abortedAt' = step

\* t, solution = model.simulate_cooperation(years)
\* With years = 0 the grid is empty; what odeint does with an empty grid is
\* the library's choice: it raises, or it returns an array with no rows.
Simulate(y) ==
    /\ pc = "simulate"
    /\ years' = y
    /\ LET grid == linspace(y, y * PointsPerYear)
           p == params(tech_transfer_rate, trade_growth_rate,
                       collaboration_factor, resource_constraint)
       IN IF Len(grid) = 0
          THEN \/ /\ Abort("simulate")
                  /\ UNCHANGED <<t, solution, istate, args>>
               \/ /\ pc' = After("simulate")
                  /\ t' = grid
                  /\ solution' = <<>>
                  /\ istate' = "ok"
                  /\ UNCHANGED <<args, abortedAt>>
          ELSE \E junk \in Garbage :
                  \E r \in {odeint(initial_state, grid, p, junk)} :
                     /\ args' = <<BoundArgs(p)>>
                     /\ istate' = r.istate
                     /\ IF r.raised
                        THEN /\ Abort("simulate")
                             /\ UNCHANGED <<t, solution>>
                        ELSE /\ pc' = After("simulate")
                             /\ t' = grid
                             /\ solution' = r.y
                             /\ UNCHANGED abortedAt
    /\ UNCHANGED <<tech_transfer_rate, trade_growth_rate, collaboration_factor,
                   resource_constraint, caller, metrics, printed, plotted,
                   dynIn, dynOut>>

\* metrics = model.calculate_metrics(solution)
CalculateMetrics ==
    /\ pc = "metrics"
    /\ LET r == calculate_metrics(solution)
       IN IF r.raised # ""
          THEN /\ Abort("metrics")
               /\ UNCHANGED metrics
          ELSE /\ pc' = After("metrics")
               /\ metrics' = r.value
               /\ UNCHANGED abortedAt
    /\ UNCHANGED <<tech_transfer_rate, trade_growth_rate, collaboration_factor,
                   resource_constraint, caller, years, t, solution, istate,
                   args, printed, plotted, dynIn, dynOut>>

\* print(model.generate_report(metrics))
PrintReport ==
    /\ pc = "report"
    /\ printed' = <<generate_report(tech_transfer_rate, trade_growth_rate,
                                    collaboration_factor, resource_constraint,
                                    metrics[1])>>
    /\ pc' = After("report")
    /\ UNCHANGED <<tech_transfer_rate, trade_growth_rate, collaboration_factor,
                   resource_constraint, caller, years, t, solution, istate,
                   args, metrics, plotted, abortedAt, dynIn, dynOut>>

\* model.plot_results(t, solution): the figure is shown, or matplotlib
\* raises (no display for the backend, the window interrupted).
PlotResults ==
    /\ pc = "plot"
    /\ \/ /\ plotted' = TRUE
          /\ pc' = After("plot")
          /\ UNCHANGED abortedAt
       \/ /\ Abort("plot")
          /\ UNCHANGED plotted
    /\ UNCHANGED <<tech_transfer_rate, trade_growth_rate, collaboration_factor,
                   resource_constraint, caller, years, t, solution, istate,
                   args, metrics, printed, dynIn, dynOut>>

\* model.cooperation_dynamics(state, t, a, b, c, d), called directly.
EvalDynamics ==
    /\ pc = "call"
    /\ dynOut' = <<cooperation_dynamics(dynIn[1], dynIn[2], dynIn[3],
                                        dynIn[4], dynIn[5])>>
    /\ pc' = "returned"
    /\ UNCHANGED <<tech_transfer_rate, trade_growth_rate, collaboration_factor,
                   resource_constraint, caller, years, t, solution, istate,
                   args, metrics, printed, plotted, abortedAt, dynIn>>

Next ==
    \/ \E tech \in Rates, trade \in Rates, collab \in Rates, resource \in Rates :
          SetParameters(tech, trade, collab, resource)
    \/ \E y \in 0..MaxYears : Simulate(y)
    \/ CalculateMetrics
    \/ PrintReport
    \/ PlotResults
    \/ EvalDynamics

Spec == Init /\ [][Next]_vars

---------------------------------------------------------------------------
(* Properties.                                                             *)

SwapRow(row) == <<row[2], row[1]>>

\* simulate_cooperation has returned to main.
SimulateReturned ==
    /\ caller = "main"
    /\ \/ pc \in {"metrics", "report", "plot", "done"}
       \/ pc = "aborted" /\ abortedAt # "simulate"

\* calculate_metrics has been called on a trajectory that has rows.
MetricsCalled ==
    /\ pc \notin {"simulate", "metrics", "call", "returned"}
    /\ abortedAt # "simulate"
    /\ Len(solution) >= 1

ZeroInitial ==
    /\ Len(solution) >= 1
    /\ (solution[1][1] = Num(0) \/ solution[1][2] = Num(0))

\* C1 as stated: the dynamics function is called with a = technology
\* transfer rate, b = collaboration factor, c = trade growth rate and
\* d = resource constraint.
C1_ArgsByMeaning ==
    args # <<>> =>
        args[1] = [a |-> tech_transfer_rate, b |-> collaboration_factor,
                   c |-> trade_growth_rate, d |-> resource_constraint]

\* C1 amended: the tuple is bound by position, so the dynamics function is
\* called with a = technology transfer rate, b = trade growth rate,
\* c = collaboration factor and d = resource constraint; with the
\* constructor's defaults that is a = 0.3, b = 0.2, c = 0.4, d = 0.1.
C1_ArgsByPosition ==
    args # <<>> =>
        /\ args[1] = [a |-> tech_transfer_rate, b |-> trade_growth_rate,
                      c |-> collaboration_factor, d |-> resource_constraint]
        /\ AtDefaults =>
              args[1] = [a |-> Norm(3, 10), b |-> Norm(2, 10),
                         c |-> Norm(4, 10), d |-> Norm(1, 10)]

C1_Witness ==
    /\ args # <<>>
    /\ AtDefaults
    /\ args[1].b = Norm(2, 10)
    /\ args[1].c = Norm(4, 10)

\* C2 as stated: on a trajectory whose initial state has a zero component
\* calculate_metrics ends in an error and returns no mapping.
C2_ZeroInitialRaises ==
    (MetricsCalled /\ ZeroInitial) =>
        (pc = "aborted" /\ abortedAt = "metrics" /\ metrics = <<>>)

\* C2 amended: on such a trajectory calculate_metrics raises nothing and
\* returns its mapping; the Synergy Index in it is never finite: it is NaN
\* when the product of the final levels is zero or one of the two products
\* is NaN, and infinite otherwise.
C2_ZeroInitialNotFinite ==
    (MetricsCalled /\ ZeroInitial) =>
        /\ abortedAt # "metrics"
        /\ metrics # <<>>
        /\ ~IsFinite(metrics[1].synergy_index)
        /\ LET last == solution[Len(solution)]
               first == solution[1]
           IN (metrics[1].synergy_index = NaN) <=>
                 \/ FMul(last[1], last[2]) \in {Num(0), NaN}
                 \/ FMul(first[1], first[2]) = NaN

C2_Witness ==
    /\ MetricsCalled
    /\ ZeroInitial
    /\ metrics # <<>>
    /\ metrics[1].synergy_index = PosInf

\* C3 as stated: no run of main ends with the report printed and no plot
\* rendered, or with the plot rendered and no report printed.
C3_NoPartialOutput ==
    (caller = "main" /\ pc \in {"done", "aborted"}) =>
        ((printed # <<>>) <=> plotted)

\* C3 amended: a fault in simulate or in calculate_metrics ends the run with
\* nothing printed and nothing plotted; the report is printed before the
\* plot starts, so a fault in plot_results ends the run with the report
\* printed and no plot; the plot is never rendered without the report.
C3_ReportBeforePlot ==
    caller = "main" =>
        /\ plotted => printed # <<>>
        /\ abortedAt \in {"simulate", "metrics"} => (printed = <<>> /\ ~plotted)
        /\ abortedAt = "plot" => (printed # <<>> /\ ~plotted)
        /\ pc = "done" => (printed # <<>> /\ plotted)

C3_Witness ==
    /\ caller = "main"
    /\ pc = "aborted"
    /\ abortedAt = "plot"
    /\ printed # <<>>
    /\ ~plotted

\* C4 as stated: after a solver failure simulate_cooperation ends in an
\* error and returns nothing, so no later step is reached.
C4_FailureRaises ==
    istate = "failed" => (pc = "aborted" /\ abortedAt = "simulate")

\* C4 amended: after a solver failure odeint only warns: simulate_cooperation
\* returns the grid and a trajectory with one row per grid point (the rows
\* the solver never reached unset), and main goes on to calculate_metrics,
\* generate_report and plot_results with it.
C4_FailureReturns ==
    istate = "failed" =>
        /\ abortedAt \in {"", "plot"}
        /\ pc # "simulate"
        /\ Len(t) = years * PointsPerYear
        /\ Len(solution) = Len(t)
        /\ solution[1] = initial_state
        /\ pc \in {"report", "plot", "done"} => metrics # <<>>

C4_Witness ==
    /\ istate = "failed"
    /\ pc = "done"
    /\ plotted
    /\ metrics # <<>>
    /\ ~IsFinite(metrics[1].region1_final)

\* C5: evaluating the dynamics at the swapped state with (a, b) exchanged
\* with (c, d) gives the original derivative pair swapped; and the
\* trajectory from the swapped initial state and swapped parameters is the
\* original one with its two columns swapped at every grid point.
C5_Symmetry ==
    /\ pc = "returned" =>
          cooperation_dynamics(SwapRow(dynIn[1]), dynIn[4], dynIn[5],
                               dynIn[2], dynIn[3]) = SwapRow(dynOut[1])
    /\ (SimulateReturned /\ years >= 1) =>
          \E m \in {odeint(SwapRow(initial_state), t,
                             <<args[1].c, args[1].d, args[1].a, args[1].b>>,
                             <<NaN, NaN>>)} :
             /\ m.istate = istate
             /\ istate = "ok" =>
                   m.y = [i \in 1..Len(solution) |-> SwapRow(solution[i])]

C5_Witness ==
    /\ pc = "returned"
    /\ dynIn[1][1] # dynIn[1][2]
    /\ dynIn[2] # dynIn[4]
    /\ dynIn[3] # dynIn[5]
    /\ dynOut[1][1] # dynOut[1][2]
    /\ IsFinite(dynOut[1][1])

\* C7: the two final levels are the components of the last entry, Total
\* Growth is (region1_final + region2_final) - (region1_initial +
\* region2_initial), and the mapping depends only on the first and the
\* last entry of the trajectory.
C7_Metrics ==
    metrics # <<>> =>
        LET first == solution[1]
            last == solution[Len(solution)]
            m == metrics[1]
        IN /\ m.region1_final = last[1]
           /\ m.region2_final = last[2]
           /\ m.total_growth = FSub(FAdd(m.region1_final, m.region2_final),
                                    FAdd(first[1], first[2]))
           /\ (\A x \in {first[1], first[2], last[1], last[2]} : x.d = 1) =>
                 m.total_growth =
                     Num((last[1].n + last[2].n) - (first[1].n + first[2].n))
           /\ metrics = calculate_metrics(<<first, last>>).value

C7_Witness ==
    /\ metrics # <<>>
    /\ Len(solution) >= 2
    /\ solution[1] # solution[Len(solution)]
    /\ solution[1][1] # solution[1][2]
    /\ metrics[1].total_growth # Num(0)
    /\ IsFinite(metrics[1].total_growth)

AllRatesZero ==
    /\ tech_transfer_rate = Num(0)
    /\ trade_growth_rate = Num(0)
    /\ collaboration_factor = Num(0)
    /\ resource_constraint = Num(0)

\* C8: with all four rates zero every entry of the trajectory equals the
\* initial state [20, 20] and its Synergy Index is 1.0; and Synergy Index is
\* 1.0 for any trajectory whose last entry equals its first, both initial
\* components being non-zero (and finite).
C8_NoGrowth ==
    /\ (SimulateReturned /\ AllRatesZero /\ years >= 1) =>
          /\ \A i \in 1..Len(solution) : solution[i] = initial_state
          /\ Len(solution) = years * PointsPerYear
          /\ metrics # <<>> => metrics[1].synergy_index = Num(1)
    /\ (metrics # <<>>
          /\ solution[Len(solution)] = solution[1]
          /\ IsFinite(solution[1][1]) /\ solution[1][1] # Num(0)
          /\ IsFinite(solution[1][2]) /\ solution[1][2] # Num(0)) =>
          metrics[1].synergy_index = Num(1)

C8_Witness ==
    /\ SimulateReturned
    /\ AllRatesZero
    /\ years >= 1
    /\ pc = "done"
    /\ metrics[1].synergy_index = Num(1)
    /\ metrics[1].total_growth = Num(0)

\* C9 as stated: simulate_cooperation(years=0) yields a trajectory with a
\* first and a last entry, both the initial state, and calculate_metrics on
\* it gives Synergy Index 1.0.
C9_ZeroHorizonTrajectory ==
    (caller = "main" /\ years = 0 /\ pc # "simulate") =>
        /\ pc # "aborted"
        /\ Len(solution) >= 1
        /\ solution[1] = initial_state
        /\ solution[Len(solution)] = initial_state
        /\ metrics # <<>> => metrics[1].synergy_index = Num(1)

\* C9 amended: simulate_cooperation(years=0) builds a time grid of 0 points;
\* no trajectory with a first or last entry comes of it (odeint raises, or
\* returns an array with no rows on which calculate_metrics raises
\* IndexError), and no Synergy Index is computed, printed or plotted.
C9_ZeroHorizonEmpty ==
    (caller = "main" /\ years = 0 /\ pc # "simulate") =>
        /\ t = <<>>
        /\ solution = <<>>
        /\ metrics = <<>>
        /\ printed = <<>>
        /\ ~plotted
        /\ \/ pc = "aborted" /\ abortedAt \in {"simulate", "metrics"}
           \/ pc = "metrics"

C9_Witness ==
    /\ caller = "main"
    /\ years = 0
    /\ pc = "aborted"
    /\ abortedAt = "metrics"
    /\ istate = "ok"

\* C10: for every horizon years >= 1 the grid has exactly years*12 evenly
\* spaced, strictly increasing points from 0 to years, and the trajectory
\* has one state per grid point, the first being the initial state [20, 20].
C10_Grid ==
    (SimulateReturned /\ years >= 1) =>
        /\ Len(t) = years * 12
        /\ t[1] = Num(0)
        /\ t[Len(t)] = Num(years)
        /\ \A i \in 1..(Len(t) - 1) :
              /\ t[i] # t[i + 1]
              /\ FLeq(t[i], t[i + 1])
        /\ \A i \in 1..(Len(t) - 2) :
              FSub(t[i + 1], t[i]) = FSub(t[i + 2], t[i + 1])
        /\ Len(solution) = Len(t)
        /\ solution[1] = <<Num(20), Num(20)>>

C10_Witness ==
    /\ SimulateReturned
    /\ years = 2
    /\ Len(t) = 24
    /\ Len(solution) = 24
    /\ solution[24] # solution[1]

============================================================================
